---------------------------- MODULE Spec2Model ----------------------------
(***************************************************************************)
(* A model of scan.py, the scan orchestration of bucket-antivirus-function:*)
(* lambda_handler and the functions it calls, one step per external call.  *)
(* The object store, the notification bus, the scan engine and the local   *)
(* disk are modelled by the state they hold and by the outcomes their      *)
(* calls can have (a result, or an exception that fails the invocation).   *)
(* The clients built at the top of lambda_handler (role assumption) and the *)
(* print statements are left out, except the warning of the missing-object  *)
(* branch, whose formatting decides how that branch ends.                   *)
(***************************************************************************)
EXTENDS Naturals, Integers, Sequences, FiniteSets, TLC

VARIABLES
    trigger,          \* the event awaiting lambda_handler, NoTrigger once decoded
    delivery,         \* how many times the trigger has been delivered so far
    cfg,              \* the configuration constants imported from common / os.environ
    bucketVersioning, \* BucketVersioning(bucket).status
    bucket,           \* the object versions of the bucket, oldest first
    pc,               \* position of lambda_handler
    s3_object,        \* the object reference decoded by event_object
    to_download,      \* definition files still to download
    scan_result,      \* verdict returned by clamav.scan_file
    scan_signature,   \* signature returned by clamav.scan_file
    result_time,      \* get_timestamp() taken after the scan
    localFile,        \* Body of the copy held at file_path, 0 when no file
    curr_tags,        \* the TagSet set_av_tags read before it wrote
    now,              \* the clock read by get_timestamp()
    effects,          \* the calls completed by this invocation, in order
    published,        \* the notifications published, in order
    error             \* the exception that ended the invocation, "none" otherwise

vars == <<trigger, delivery, cfg, bucketVersioning, bucket, pc, s3_object, to_download, scan_result,
          scan_signature, result_time, localFile, curr_tags, now, effects, published,
          error>>

---------------------------------------------------------------------------
(* Bounds of the model *)

\* versions of the referenced key that exist before the invocation: 0..MaxVersions
MaxVersions == 2
\* definition files DefinitionSync may ask to download: 0..MaxDefs
MaxDefs == 2
\* length of the tag lists the tag-merge specification starts from
MaxTags == 3
\* length of the URL-escaped keys the decoding specification starts from
MaxKeyLen == 3

---------------------------------------------------------------------------
(* Constants of the program *)

None == "<None>"

AV_SIGNATURE_METADATA == "av-signature"
AV_STATUS_METADATA == "av-status"
AV_TIMESTAMP_METADATA == "av-timestamp"
AV_STATUS_CLEAN == "CLEAN"
AV_STATUS_INFECTED == "INFECTED"
AV_SIGNATURE_OK == ""

ProvenanceKey == "viso:antivirus:file-source"
ProvenanceAllowList == {"textract"}

ScanKeys == {AV_SIGNATURE_METADATA, AV_STATUS_METADATA, AV_TIMESTAMP_METADATA}

---------------------------------------------------------------------------
(* str_to_bool and Python truthiness *)

Lower(s) ==
    CASE s = "True" -> "true"
      [] s = "False" -> "false"
      [] OTHER -> s

StrToBoolTrue == {"y", "yes", "t", "true", "on", "1"}

\* bool(strtobool(str(s))); the flag values of the model are all valid
str_to_bool(s) == Lower(s) \in StrToBoolTrue

\* `x not in [None, ""]`
Configured(arn) == arn \notin {None, ""}

\* truthiness of a string-or-None value
Truthy(x) == x # None /\ x # ""

---------------------------------------------------------------------------
(* Keys are sequences of characters *)

KeyA == <<"a">>
KeyAB == <<"a", "b">>
BucketName == "uploads"

StartsWith(k, p) == Len(p) <= Len(k) /\ SubSeq(k, 1, Len(p)) = p

\* the percent escapes the model's keys use
HexValue(h1, h2) ==
    CASE h1 = "2" /\ h2 = "0" -> " "
      [] h1 = "2" /\ h2 = "B" -> "+"
      [] h1 = "6" /\ h2 = "1" -> "a"
      [] h1 = "6" /\ h2 = "2" -> "b"
      [] OTHER -> None

RECURSIVE Unquote(_)
Unquote(s) ==
    IF s = <<>> THEN <<>>
    ELSE IF Head(s) = "%" /\ Len(s) >= 3 /\ HexValue(s[2], s[3]) # None
         THEN <<HexValue(s[2], s[3])>> \o Unquote(SubSeq(s, 4, Len(s)))
         ELSE <<Head(s)>> \o Unquote(Tail(s))

PlusToSpace(s) == [i \in 1..Len(s) |-> IF s[i] = "+" THEN " " ELSE s[i]]

unquote_plus(s) == Unquote(PlusToSpace(s))

---------------------------------------------------------------------------
(* event_object *)

SnsEvent(b, k) ==
    [Records |-> <<[EventSource |-> "aws:sns",
                    Sns |-> [Message |->
                        [Records |-> <<[s3 |-> [bucket |-> [name |-> b],
                                                object |-> [key |-> k]]]>>]]]>>]

SqsEvent(b, k) ==
    [Records |-> <<[eventSource |-> "aws:sqs",
                    body |-> [data |-> [s3Bucket |-> b, s3Key |-> k]]]>>]

NoRecordsEvent == [detail |-> "none"]
EmptyRecordsEvent == [Records |-> <<>>]
OtherSourceEvent == [Records |-> <<[eventSource |-> "aws:s3"]>>]

NoObject == [bucket_name |-> None, key |-> <<>>]

NoTrigger == [delivered |-> TRUE]

IsSns(event) ==
    /\ "EventSource" \in DOMAIN event.Records[1]
    /\ event.Records[1].EventSource = "aws:sns"

IsSqs(event) ==
    /\ "eventSource" \in DOMAIN event.Records[1]
    /\ event.Records[1].eventSource = "aws:sqs"

HasRecords(event) == "Records" \in DOMAIN event /\ Len(event.Records) > 0

\* event_object with the queue branch decoding the key by unquote, which
\* leaves a plus sign as it is
event_object_sqs_unquote(event) ==
    IF HasRecords(event)
    THEN IF IsSns(event)
         THEN LET payload == event.Records[1].Sns.Message
              IN [bucket_name |-> payload.Records[1].s3.bucket.name,
                  key |-> unquote_plus(payload.Records[1].s3.object.key)]
         ELSE IF IsSqs(event)
         THEN LET payload == event.Records[1].body
              IN [bucket_name |-> payload.data.s3Bucket,
                  key |-> Unquote(payload.data.s3Key)]
         ELSE NoObject
    ELSE NoObject

\* the object reference, or NoObject when the function raises
event_object(event) ==
    IF HasRecords(event)
    THEN IF IsSns(event)
         THEN LET payload == event.Records[1].Sns.Message
              IN [bucket_name |-> payload.Records[1].s3.bucket.name,
                  key |-> unquote_plus(payload.Records[1].s3.object.key)]
         ELSE IF IsSqs(event)
         THEN LET payload == event.Records[1].body
              IN [bucket_name |-> payload.data.s3Bucket,
                  key |-> unquote_plus(payload.data.s3Key)]
         ELSE NoObject
    ELSE NoObject

---------------------------------------------------------------------------
(* The object store: a list of object versions, oldest first *)

Tag(k, v) == [Key |-> k, Value |-> v]

EmptyMeta == [k \in {} |-> ""]

\* Body names the content: an uploaded version holds content of its own
ObjectVersion(k, id, tags, meta) ==
    [Key |-> k, VersionId |-> id, DeleteMarker |-> FALSE, Tags |-> tags,
     Metadata |-> meta, Body |-> id]

DeleteMarkerOf(k, id) ==
    [Key |-> k, VersionId |-> id, DeleteMarker |-> TRUE, Tags |-> <<>>,
     Metadata |-> EmptyMeta, Body |-> 0]

HasKey(b, k) == \E i \in 1..Len(b) : b[i].Key = k

\* index of the current version of key k
LatestIdx(b, k) ==
    CHOOSE i \in 1..Len(b) : b[i].Key = k /\ \A j \in (i+1)..Len(b) : b[j].Key # k

\* Object(bucket, key).load() finds the object
ObjectExists(b, k) == HasKey(b, k) /\ ~b[LatestIdx(b, k)].DeleteMarker

NextVersionId(b) == Len(b) + 1

\* bucket.object_versions.filter(Prefix=key): versions and delete markers
ObjectVersionsWithPrefix(b, prefix) ==
    SelectSeq(b, LAMBDA v : StartsWith(v.Key, prefix))

VersionsOfKey(b, k) == SelectSeq(b, LAMBDA v : v.Key = k)

---------------------------------------------------------------------------
(* verify_s3_object_version: "ok", or the error it raises *)

\* the guard counting the versions without looking at the versioning status
verify_s3_object_version_count_only(status, b, key) ==
    IF Len(ObjectVersionsWithPrefix(b, key)) > 1
    THEN "ConcurrentModificationError"
    ELSE "ok"

verify_s3_object_version(status, b, key) ==
    IF status = "Enabled"
    THEN IF Len(ObjectVersionsWithPrefix(b, key)) > 1
         THEN "ConcurrentModificationError"
         ELSE "ok"
    ELSE "MisconfigurationError"

---------------------------------------------------------------------------
(* object_does_not_require_scan, on the TagSet get_object_tagging returns *)

\* the value tested with Python's substring "in" against the string
\* "textract" instead of membership in the list ["textract"]
object_does_not_require_scan_substring(tagset) ==
    \E i \in 1..Len(tagset) :
        /\ tagset[i].Key = ProvenanceKey
        /\ tagset[i].Value \in {"textract", "text", "tract", ""}

object_does_not_require_scan(tagset) ==
    \E i \in 1..Len(tagset) :
        /\ tagset[i].Key = ProvenanceKey
        /\ tagset[i].Value \in ProvenanceAllowList

---------------------------------------------------------------------------
(* set_av_tags: the TagSet written for the TagSet read *)

\* list.remove(x): drops the first element equal to x
RECURSIVE ListRemove(_, _)
ListRemove(l, x) ==
    IF l = <<>> THEN <<>>
    ELSE IF Head(l) = x THEN Tail(l)
    ELSE <<Head(l)>> \o ListRemove(Tail(l), x)

\* the loop over curr_tags, removing each scan tag from new_tags
RECURSIVE RemoveScanTags(_, _)
RemoveScanTags(rest, new_tags) ==
    IF rest = <<>> THEN new_tags
    ELSE IF Head(rest).Key \in ScanKeys
         THEN RemoveScanTags(Tail(rest), ListRemove(new_tags, Head(rest)))
         ELSE RemoveScanTags(Tail(rest), new_tags)

\* set_av_tags without the removal loop: the new tags are only appended
set_av_tags_append_only(tagset, result, signature, timestamp) ==
    tagset
        \o <<Tag(AV_SIGNATURE_METADATA, signature),
             Tag(AV_STATUS_METADATA, result),
             Tag(AV_TIMESTAMP_METADATA, timestamp)>>

\* new_tags starts as a copy of the tags read
set_av_tags(tagset, result, signature, timestamp) ==
    RemoveScanTags(tagset, tagset)
        \o <<Tag(AV_SIGNATURE_METADATA, signature),
             Tag(AV_STATUS_METADATA, result),
             Tag(AV_TIMESTAMP_METADATA, timestamp)>>

---------------------------------------------------------------------------
(* set_av_metadata: the metadata dictionary passed to copy() *)

set_av_metadata(metadata, result, signature, timestamp) ==
    [k \in DOMAIN metadata \cup ScanKeys |->
        IF k = AV_SIGNATURE_METADATA THEN signature
        ELSE IF k = AV_STATUS_METADATA THEN result
        ELSE IF k = AV_TIMESTAMP_METADATA THEN timestamp
        ELSE metadata[k]]

\* Object.copy onto itself with MetadataDirective REPLACE: a new current
\* version when versioning is enabled, the current version rewritten otherwise;
\* the tags and the content are carried over
CopyOntoItself(status, b, k, meta) ==
    LET cur == b[LatestIdx(b, k)]
    IN IF status = "Enabled"
       THEN Append(b, [ObjectVersion(k, NextVersionId(b), cur.Tags, meta)
                          EXCEPT !.Body = cur.Body])
       ELSE [b EXCEPT ![LatestIdx(b, k)].Metadata = meta]

\* put_object_tagging: replaces the tag set of the current version
PutObjectTagging(b, k, tagset) == [b EXCEPT ![LatestIdx(b, k)].Tags = tagset]

\* put_object by a writer other than this function: a new current version
\* when versioning is enabled, the current version replaced otherwise
PutObject(status, b, k) ==
    IF status = "Enabled" \/ ~HasKey(b, k)
    THEN Append(b, ObjectVersion(k, NextVersionId(b), <<>>, EmptyMeta))
    ELSE [b EXCEPT ![LatestIdx(b, k)] =
             [ObjectVersion(k, b[LatestIdx(b, k)].VersionId, <<>>, EmptyMeta)
                 EXCEPT !.Body = NextVersionId(b)]]

\* Object.delete(): a delete marker becomes the current version
DeleteObject(status, b, k) ==
    IF status = "Enabled" \/ ~HasKey(b, k)
    THEN Append(b, DeleteMarkerOf(k, NextVersionId(b)))
    ELSE [b EXCEPT ![LatestIdx(b, k)] = DeleteMarkerOf(k, b[LatestIdx(b, k)].VersionId)]

---------------------------------------------------------------------------
(* sns_scan_results: whether it publishes for this verdict *)

\* sns_scan_results testing the clean toggle whatever the verdict
sns_scan_results_clean_toggle_only(c, result) ==
    str_to_bool(c.AV_STATUS_SNS_PUBLISH_CLEAN)

sns_scan_results_publishes(c, result) ==
    /\ ~(result = AV_STATUS_CLEAN /\ ~str_to_bool(c.AV_STATUS_SNS_PUBLISH_CLEAN))
    /\ ~(result = AV_STATUS_INFECTED /\ ~str_to_bool(c.AV_STATUS_SNS_PUBLISH_INFECTED))

\* the condition of the cross-account publication in lambda_handler
cross_account_publishes(c, result) ==
    /\ \/ (result = AV_STATUS_CLEAN /\ str_to_bool(c.AV_STATUS_SNS_PUBLISH_CLEAN))
       \/ (result = AV_STATUS_INFECTED /\ str_to_bool(c.AV_STATUS_SNS_PUBLISH_INFECTED))
    /\ Configured(c.AV_STATUS_CLEAN_SNS_ARN)

\* sns_delete_results testing the flag and not the topic
sns_delete_results_flag_only(c) ==
    Truthy(c.AV_DELETE_INFECTED_FILES)

\* the condition under which sns_delete_results publishes
sns_delete_results_publishes(c) ==
    Truthy(c.AV_DELETE_INFECTED_FILES) /\ Truthy(c.AV_DELETE_SNS_ARN)

\* the deletion branch testing the flag and not the verdict
deletes_whenever_flag(c, result) ==
    str_to_bool(c.AV_DELETE_INFECTED_FILES)

\* the condition of the deletion branch at the end of lambda_handler
\* the deletion branch taken for every INFECTED verdict, the flag not consulted
deletes_every_infected(c, result) == result = AV_STATUS_INFECTED

deletes_infected(c, result) ==
    str_to_bool(c.AV_DELETE_INFECTED_FILES) /\ result = AV_STATUS_INFECTED

Notice(kind, arn, ts) == [kind |-> kind, TargetArn |-> arn, timestamp |-> ts]

---------------------------------------------------------------------------
(* The states an invocation starts from *)

FlagValues == {"True", "False"}

TopicValues(arn) == {None, "", arn}

Configs ==
    [AV_PROCESS_ORIGINAL_VERSION_ONLY : FlagValues,
     AV_DELETE_INFECTED_FILES : FlagValues,
     AV_DELETE_SNS_ARN : TopicValues("arn:delete"),
     AV_SCAN_START_SNS_ARN : TopicValues("arn:start"),
     AV_STATUS_SNS_ARN : TopicValues("arn:status"),
     AV_STATUS_CLEAN_SNS_ARN : TopicValues("arn:status-clean"),
     AV_STATUS_SNS_PUBLISH_CLEAN : FlagValues,
     AV_STATUS_SNS_PUBLISH_INFECTED : FlagValues,
     AV_UPDATE_METADATA : BOOLEAN]

\* tag sets an uploaded object carries: none, the provenance tag of a trusted
\* producer, or another producer's tag with the scan tags of an earlier scan
OldScanTags ==
    <<Tag(AV_SIGNATURE_METADATA, "Eicar-Test-Signature"),
      Tag(AV_STATUS_METADATA, AV_STATUS_INFECTED),
      Tag(AV_TIMESTAMP_METADATA, 0)>>

InitialTagSets ==
    {<<>>,
     <<Tag(ProvenanceKey, "textract")>>,
     <<Tag(ProvenanceKey, "upload")>> \o OldScanTags}

InitialMeta == [k \in {"owner"} |-> "ops"]

\* n versions of key k, the current one carrying tagset
VersionsOf(k, n, tagset) ==
    [i \in 1..n |-> ObjectVersion(k, i, IF i = n THEN tagset ELSE <<>>, InitialMeta)]

\* the buckets an invocation meets: 0..MaxVersions versions of the referenced
\* key, or one version of it beside one version of a key that extends it
InitialBuckets ==
    {VersionsOf(KeyA, n, tagset) : n \in 0..MaxVersions, tagset \in InitialTagSets}
        \cup {<<ObjectVersion(KeyA, 1, <<>>, InitialMeta),
                ObjectVersion(KeyAB, 2, <<>>, InitialMeta)>>}

Events ==
    {SnsEvent(BucketName, KeyA), SqsEvent(BucketName, KeyA),
     SnsEvent(BucketName, <<"%", "6", "1">>),
     NoRecordsEvent, EmptyRecordsEvent, OtherSourceEvent}

Init ==
    /\ trigger \in Events
    /\ delivery = 1
    /\ cfg \in Configs
    /\ bucketVersioning \in {"Enabled", "Suspended"}
    /\ bucket \in InitialBuckets
    /\ pc = "Received"
    /\ s3_object = NoObject
    /\ to_download = 0
    /\ scan_result = None
    /\ scan_signature = None
    /\ result_time = 0
    /\ localFile = 0
    /\ curr_tags = <<>>
    /\ now = 1
    /\ effects = <<>>
    /\ published = <<>>
    /\ error = "none"

---------------------------------------------------------------------------
(* lambda_handler, one action per call it makes *)

\* the clock advances with every reading of it
get_timestamp == now

\* an exception propagates out of lambda_handler
Raise(err) ==
    /\ pc' = "Failed"
    /\ error' = err
    /\ now' = now

\* the call completed: the handler moves on
Goto(next, done) ==
    /\ pc' = next
    /\ effects' = effects \o done
    /\ now' = now

\* the same for a step that reads the clock
GotoTimed(next, done) ==
    /\ pc' = next
    /\ effects' = effects \o done
    /\ now' = now + 1

Publish(kind, arn) ==
    published' = Append(published, Notice(kind, arn, get_timestamp))

\* event_object(event): the object reference, or the format error; the
\* handler does not read the event again
DecodeEvent ==
    /\ pc = "Received"
    /\ IF event_object(trigger) = NoObject
       THEN /\ Raise("FormatError")
            /\ UNCHANGED <<s3_object, effects>>
       ELSE /\ s3_object' = event_object(trigger)
            /\ GotoTimed("Decoded", <<>>)
            /\ error' = error
    /\ trigger' = NoTrigger
    /\ UNCHANGED <<delivery, cfg, curr_tags, bucketVersioning, bucket, to_download, scan_result,
                   scan_signature, result_time, localFile, published>>

\* s3_object_exists and the warning branch: the format string of the warning
\* has three fields and is given one value, so print's argument raises TypeError
CheckExists ==
    /\ pc = "Decoded"
    /\ \/ /\ ObjectExists(bucket, s3_object.key)
          /\ Goto("Validating", <<"exists_check">>)
          /\ error' = error
       \/ /\ ~ObjectExists(bucket, s3_object.key)
          /\ Raise("TypeError")
          /\ effects' = Append(effects, "exists_check")
       \/ /\ Raise("ClientError")
          /\ UNCHANGED effects
    /\ UNCHANGED <<delivery, trigger, cfg, curr_tags, bucketVersioning, bucket, s3_object, to_download,
                   scan_result,
                   scan_signature, result_time, localFile, published>>

\* verify_s3_object_version, when the flag asks for it
VersionGuard ==
    /\ pc = "Validating"
    /\ IF str_to_bool(cfg.AV_PROCESS_ORIGINAL_VERSION_ONLY)
       THEN \/ /\ verify_s3_object_version(bucketVersioning, bucket, s3_object.key) = "ok"
               /\ Goto("Validated", <<"version_check">>)
               /\ error' = error
            \/ /\ verify_s3_object_version(bucketVersioning, bucket, s3_object.key) # "ok"
               /\ Raise(verify_s3_object_version(bucketVersioning, bucket, s3_object.key))
               /\ effects' = Append(effects, "version_check")
            \/ /\ Raise("ClientError")
               /\ UNCHANGED effects
       ELSE /\ Goto("Validated", <<>>)
            /\ error' = error
    /\ UNCHANGED <<delivery, trigger, cfg, curr_tags, bucketVersioning, bucket, s3_object, to_download,
                   scan_result,
                   scan_signature, result_time, localFile, published>>

CurrentTags == bucket[LatestIdx(bucket, s3_object.key)].Tags

\* object_does_not_require_scan
SkipPolicy ==
    /\ pc = "Validated"
    /\ \/ /\ ObjectExists(bucket, s3_object.key)
          /\ IF object_does_not_require_scan(CurrentTags)
             THEN Goto("Skipped", <<"tags_read">>)
             ELSE Goto("Starting", <<"tags_read">>)
          /\ error' = error
       \/ /\ Raise("ClientError")
          /\ UNCHANGED effects
    /\ UNCHANGED <<delivery, trigger, cfg, curr_tags, bucketVersioning, bucket, s3_object, to_download,
                   scan_result,
                   scan_signature, result_time, localFile, published>>

\* the skip branch without its return: the notification is sent and the
\* handler goes on to the scan path
SkipNotify_FallsThrough ==
    /\ pc = "Skipped"
    /\ IF Configured(cfg.AV_STATUS_SNS_ARN)
       THEN \/ /\ Publish("skip", cfg.AV_STATUS_SNS_ARN)
               /\ GotoTimed("Starting", <<"publish_skip">>)
               /\ error' = error
            \/ /\ Raise("PublishError")
               /\ UNCHANGED <<effects, published>>
       ELSE /\ Goto("Starting", <<>>)
            /\ UNCHANGED <<error, published>>
    /\ UNCHANGED <<delivery, trigger, cfg, curr_tags, bucketVersioning, bucket, s3_object, to_download,
                   scan_result,
                   scan_signature, result_time, localFile>>

\* the skip notification
SkipNotify ==
    /\ pc = "Skipped"
    /\ IF Configured(cfg.AV_STATUS_SNS_ARN)
       THEN \/ /\ Publish("skip", cfg.AV_STATUS_SNS_ARN)
               /\ GotoTimed("Done", <<"publish_skip">>)
               /\ error' = error
            \/ /\ Raise("PublishError")
               /\ UNCHANGED <<effects, published>>
       ELSE /\ Goto("Done", <<>>)
            /\ UNCHANGED <<error, published>>
    /\ UNCHANGED <<delivery, trigger, cfg, curr_tags, bucketVersioning, bucket, s3_object, to_download,
                   scan_result,
                   scan_signature, result_time, localFile>>

\* the scan-start notification
StartNotify ==
    /\ pc = "Starting"
    /\ IF Configured(cfg.AV_SCAN_START_SNS_ARN)
       THEN \/ /\ Publish("start", cfg.AV_SCAN_START_SNS_ARN)
               /\ GotoTimed("Downloading", <<"publish_start">>)
               /\ error' = error
            \/ /\ Raise("PublishError")
               /\ UNCHANGED <<effects, published>>
       ELSE /\ Goto("Downloading", <<>>)
            /\ UNCHANGED <<error, published>>
    /\ UNCHANGED <<delivery, trigger, cfg, curr_tags, bucketVersioning, bucket, s3_object, to_download,
                   scan_result,
                   scan_signature, result_time, localFile>>

\* s3_object.download_file(file_path): the current version is copied to disk
DownloadObject ==
    /\ pc = "Downloading"
    /\ \/ /\ ObjectExists(bucket, s3_object.key)
          /\ localFile' = bucket[LatestIdx(bucket, s3_object.key)].Body
          /\ Goto("SyncingDefs", <<"download">>)
          /\ error' = error
       \/ /\ Raise("ClientError")
          /\ UNCHANGED <<effects, localFile>>
    /\ UNCHANGED <<delivery, trigger, cfg, curr_tags, bucketVersioning, bucket, s3_object, to_download,
                   scan_result,
                   scan_signature, result_time, published>>

\* clamav.update_defs_from_s3: the set of definition files to download
UpdateDefs ==
    /\ pc = "SyncingDefs"
    /\ \/ /\ \E n \in 0..MaxDefs :
               /\ to_download' = n
               /\ Goto(IF n = 0 THEN "Scanning" ELSE "DownloadingDefs", <<"defs_sync">>)
          /\ error' = error
       \/ /\ Raise("DefinitionSyncError")
          /\ UNCHANGED <<effects, to_download>>
    /\ UNCHANGED <<delivery, trigger, cfg, curr_tags, bucketVersioning, bucket, s3_object, scan_result,
                   scan_signature, result_time, localFile, published>>

\* the loop over to_download.values() giving up on a failed download and
\* going on to the scan
DownloadDef_ErrorSkipsFile ==
    /\ pc = "DownloadingDefs"
    /\ \/ /\ to_download' = to_download - 1
          /\ Goto(IF to_download = 1 THEN "Scanning" ELSE "DownloadingDefs", <<>>)
       \/ /\ Goto("Scanning", <<>>)
          /\ UNCHANGED to_download
    /\ UNCHANGED <<delivery, trigger, cfg, curr_tags, bucketVersioning, bucket, s3_object, scan_result,
                   scan_signature, result_time, localFile, published, error>>

\* one pass of the loop over to_download.values()
DownloadDef ==
    /\ pc = "DownloadingDefs"
    /\ \/ /\ to_download' = to_download - 1
          /\ Goto(IF to_download = 1 THEN "Scanning" ELSE "DownloadingDefs", <<>>)
          /\ error' = error
       \/ /\ Raise("DefinitionSyncError")
          /\ UNCHANGED <<effects, to_download>>
    /\ UNCHANGED <<delivery, trigger, cfg, curr_tags, bucketVersioning, bucket, s3_object, scan_result,
                   scan_signature, result_time, localFile, published>>

\* the outcomes of clamav.scan_file: a verdict with its signature
ScanVerdicts ==
    {<<AV_STATUS_CLEAN, AV_SIGNATURE_OK>>,
     <<AV_STATUS_INFECTED, "Eicar-Test-Signature">>}

\* the scan step with an engine error caught, recorded and taken for CLEAN
ScanFile_ErrorAsClean ==
    /\ pc = "Scanning"
    /\ \/ /\ \E v \in ScanVerdicts :
               /\ scan_result' = v[1]
               /\ scan_signature' = v[2]
          /\ error' = error
       \/ /\ scan_result' = AV_STATUS_CLEAN
          /\ scan_signature' = AV_SIGNATURE_OK
          /\ error' = "ScanEngineError"
    /\ result_time' = get_timestamp
    /\ GotoTimed("Scanned", <<"scan">>)
    /\ UNCHANGED <<delivery, trigger, cfg, curr_tags, bucketVersioning, bucket, s3_object, to_download,
                   localFile, published>>

\* clamav.scan_file(file_path), then result_time = get_timestamp()
ScanFile ==
    /\ pc = "Scanning"
    /\ \/ /\ \E v \in ScanVerdicts :
               /\ scan_result' = v[1]
               /\ scan_signature' = v[2]
          /\ result_time' = get_timestamp
          /\ GotoTimed("Scanned", <<"scan">>)
          /\ error' = error
       \/ /\ Raise("ScanEngineError")
          /\ UNCHANGED <<effects, scan_result, scan_signature, result_time>>
    /\ UNCHANGED <<delivery, trigger, cfg, curr_tags, bucketVersioning, bucket, s3_object, to_download,
                   localFile, published>>

CurrentMetadata == bucket[LatestIdx(bucket, s3_object.key)].Metadata

\* the handler going from the metadata write straight to the notifications
SetAvMetadata_SkipsTagWrite ==
    /\ pc = "Scanned"
    /\ IF cfg.AV_UPDATE_METADATA
       THEN \/ /\ ObjectExists(bucket, s3_object.key)
               /\ bucket' = CopyOntoItself(bucketVersioning, bucket, s3_object.key,
                                set_av_metadata(CurrentMetadata, scan_result,
                                                scan_signature, result_time))
               /\ Goto("Tagged", <<"metadata_write">>)
               /\ error' = error
            \/ /\ Raise("ClientError")
               /\ UNCHANGED <<effects, bucket>>
       ELSE /\ Goto("WritingTags", <<>>)
            /\ UNCHANGED <<error, bucket>>
    /\ UNCHANGED <<delivery, trigger, cfg, curr_tags, bucketVersioning, s3_object,
                   to_download, scan_result,
                   scan_signature, result_time, localFile, published>>

\* set_av_metadata, when AV_UPDATE_METADATA is in the environment
SetAvMetadata ==
    /\ pc = "Scanned"
    /\ IF cfg.AV_UPDATE_METADATA
       THEN \/ /\ ObjectExists(bucket, s3_object.key)
               /\ bucket' = CopyOntoItself(bucketVersioning, bucket, s3_object.key,
                                set_av_metadata(CurrentMetadata, scan_result,
                                                scan_signature, result_time))
               /\ Goto("WritingTags", <<"metadata_write">>)
               /\ error' = error
            \/ /\ Raise("ClientError")
               /\ UNCHANGED <<effects, bucket>>
       ELSE /\ Goto("WritingTags", <<>>)
            /\ UNCHANGED <<error, bucket>>
    /\ UNCHANGED <<delivery, trigger, cfg, curr_tags, bucketVersioning, s3_object, to_download,
                   scan_result,
                   scan_signature, result_time, localFile, published>>

\* set_av_tags: get_object_tagging, then put_object_tagging
SetAvTags ==
    /\ pc = "WritingTags"
    /\ \/ /\ ObjectExists(bucket, s3_object.key)
          /\ curr_tags' = CurrentTags
          /\ bucket' = PutObjectTagging(bucket, s3_object.key,
                           set_av_tags(CurrentTags, scan_result, scan_signature,
                                       result_time))
          /\ Goto("Tagged", <<"tags_write">>)
          /\ error' = error
       \/ /\ Raise("ClientError")
          /\ UNCHANGED <<effects, bucket, curr_tags>>
    /\ UNCHANGED <<delivery, trigger, cfg, bucketVersioning, s3_object, to_download, scan_result,
                   scan_signature, result_time, localFile, published>>

\* the scan-result notification on the local-account topic
NotifyLocal ==
    /\ pc = "Tagged"
    /\ IF /\ Configured(cfg.AV_STATUS_SNS_ARN)
          /\ sns_scan_results_publishes(cfg, scan_result)
       THEN \/ /\ Publish("result_local", cfg.AV_STATUS_SNS_ARN)
               /\ GotoTimed("NotifiedLocal", <<"publish_result_local">>)
               /\ error' = error
            \/ /\ Raise("PublishError")
               /\ UNCHANGED <<effects, published>>
       ELSE /\ Goto("NotifiedLocal", <<>>)
            /\ UNCHANGED <<error, published>>
    /\ UNCHANGED <<delivery, trigger, cfg, curr_tags, bucketVersioning, bucket, s3_object, to_download,
                   scan_result,
                   scan_signature, result_time, localFile>>

\* the scan-result notification on the cross-account topic
NotifyCross ==
    /\ pc = "NotifiedLocal"
    /\ IF /\ cross_account_publishes(cfg, scan_result)
          /\ sns_scan_results_publishes(cfg, scan_result)
       THEN \/ /\ Publish("result_cross", cfg.AV_STATUS_CLEAN_SNS_ARN)
               /\ GotoTimed("Notified", <<"publish_result_cross">>)
               /\ error' = error
            \/ /\ Raise("PublishError")
               /\ UNCHANGED <<effects, published>>
       ELSE /\ Goto("Notified", <<>>)
            /\ UNCHANGED <<error, published>>
    /\ UNCHANGED <<delivery, trigger, cfg, curr_tags, bucketVersioning, bucket, s3_object, to_download,
                   scan_result,
                   scan_signature, result_time, localFile>>

\* metrics.send
SendMetrics ==
    /\ pc = "Notified"
    /\ \/ /\ Goto("CleaningUp", <<"metrics">>)
          /\ error' = error
       \/ /\ Raise("MetricsError")
          /\ UNCHANGED effects
    /\ UNCHANGED <<delivery, trigger, cfg, curr_tags, bucketVersioning, bucket, s3_object, to_download,
                   scan_result,
                   scan_signature, result_time, localFile, published>>

\* os.remove(file_path), an OSError ignored; then the deletion branch is chosen
RemoveLocalFile ==
    /\ pc = "CleaningUp"
    /\ localFile' = 0
    /\ Goto(IF deletes_infected(cfg, scan_result) THEN "DeletionNotice" ELSE "Done",
            <<"remove_file">>)
    /\ UNCHANGED <<delivery, trigger, cfg, curr_tags, bucketVersioning, bucket, s3_object, to_download,
                   scan_result,
                   scan_signature, result_time, published, error>>

\* sns_delete_results returning without a publish call
SnsDeleteResults_NoNotice ==
    /\ pc = "DeletionNotice"
    /\ Goto("Deleting", <<>>)
    /\ UNCHANGED <<delivery, trigger, cfg, curr_tags, bucketVersioning, bucket, s3_object, to_download,
                   scan_result, scan_signature, result_time, localFile, published,
                   error>>

\* sns_delete_results
SnsDeleteResults ==
    /\ pc = "DeletionNotice"
    /\ IF sns_delete_results_publishes(cfg)
       THEN \/ /\ Publish("delete", cfg.AV_DELETE_SNS_ARN)
               /\ GotoTimed("Deleting", <<"publish_delete">>)
               /\ error' = error
            \/ /\ Raise("PublishError")
               /\ UNCHANGED <<effects, published>>
       ELSE /\ Goto("Deleting", <<>>)
            /\ UNCHANGED <<error, published>>
    /\ UNCHANGED <<delivery, trigger, cfg, curr_tags, bucketVersioning, bucket, s3_object, to_download,
                   scan_result,
                   scan_signature, result_time, localFile>>

\* delete_s3_object with the failure of delete() logged and not raised
DeleteS3Object_ErrorSwallowed ==
    /\ pc = "Deleting"
    /\ \/ /\ bucket' = DeleteObject(bucketVersioning, bucket, s3_object.key)
          /\ Goto("Done", <<"delete">>)
       \/ /\ Goto("Done", <<>>)
          /\ UNCHANGED bucket
    /\ UNCHANGED <<delivery, trigger, cfg, curr_tags, bucketVersioning, s3_object, to_download,
                   scan_result, scan_signature, result_time, localFile, published,
                   error>>

\* delete_s3_object
DeleteS3Object ==
    /\ pc = "Deleting"
    /\ \/ /\ bucket' = DeleteObject(bucketVersioning, bucket, s3_object.key)
          /\ Goto("Done", <<"delete">>)
          /\ error' = error
       \/ /\ Raise("DeleteError")
          /\ UNCHANGED <<effects, bucket>>
    /\ UNCHANGED <<delivery, trigger, cfg, curr_tags, bucketVersioning, s3_object, to_download,
                   scan_result,
                   scan_signature, result_time, localFile, published>>

Next ==
    \/ DecodeEvent
    \/ CheckExists
    \/ VersionGuard
    \/ SkipPolicy
    \/ SkipNotify
    \/ StartNotify
    \/ DownloadObject
    \/ UpdateDefs
    \/ DownloadDef
    \/ ScanFile
    \/ SetAvMetadata
    \/ SetAvTags
    \/ NotifyLocal
    \/ NotifyCross
    \/ SendMetrics
    \/ RemoveLocalFile
    \/ SnsDeleteResults
    \/ DeleteS3Object

Spec == Init /\ [][Next]_vars

Terminated == pc \in {"Done", "Failed"}

TypeOK ==
    /\ pc \in {"Received", "Decoded", "Validating", "Validated", "Skipped", "Starting",
               "Downloading", "SyncingDefs", "DownloadingDefs", "Scanning", "Scanned",
               "WritingTags", "Tagged", "NotifiedLocal", "Notified", "CleaningUp",
               "DeletionNotice", "Deleting", "Done", "Failed", "TaggedAgain"}
    /\ to_download \in 0..(MaxDefs + 1)
    /\ (pc = "Failed") = (error # "none")

---------------------------------------------------------------------------
(* The tag write on its own: set_av_tags applied to every tag list of up to *)
(* MaxTags tags, and applied again with the same ScanResult                 *)

TagAlphabet ==
    {Tag("owner", "ops"),
     Tag(ProvenanceKey, "upload"),
     Tag(AV_STATUS_METADATA, AV_STATUS_CLEAN),
     Tag(AV_STATUS_METADATA, AV_STATUS_INFECTED),
     Tag(AV_SIGNATURE_METADATA, "Eicar-Test-Signature"),
     Tag(AV_TIMESTAMP_METADATA, 0)}

TagLists == UNION {[1..n -> TagAlphabet] : n \in 0..MaxTags}

DefaultConfig ==
    [AV_PROCESS_ORIGINAL_VERSION_ONLY |-> "False",
     AV_DELETE_INFECTED_FILES |-> "False",
     AV_DELETE_SNS_ARN |-> None,
     AV_SCAN_START_SNS_ARN |-> None,
     AV_STATUS_SNS_ARN |-> None,
     AV_STATUS_CLEAN_SNS_ARN |-> None,
     AV_STATUS_SNS_PUBLISH_CLEAN |-> "True",
     AV_STATUS_SNS_PUBLISH_INFECTED |-> "True",
     AV_UPDATE_METADATA |-> FALSE]

\* an invocation that has scanned the object and is about to write the tags
InitTags ==
    /\ trigger = NoTrigger
    /\ delivery = 1
    /\ cfg = DefaultConfig
    /\ bucketVersioning = "Enabled"
    /\ \E tagset \in TagLists :
          bucket = <<ObjectVersion(KeyA, 1, tagset, InitialMeta)>>
    /\ pc = "WritingTags"
    /\ s3_object = [bucket_name |-> BucketName, key |-> KeyA]
    /\ to_download = 0
    /\ \E v \in ScanVerdicts : scan_result = v[1] /\ scan_signature = v[2]
    /\ result_time = 2
    /\ localFile = 1
    /\ curr_tags = <<>>
    /\ now = 3
    /\ effects = <<"exists_check", "tags_read", "download", "defs_sync", "scan">>
    /\ published = <<>>
    /\ error = "none"

\* set_av_tags called once more with the same ScanResult
SetAvTagsAgain ==
    /\ pc = "Tagged"
    /\ \/ /\ ObjectExists(bucket, s3_object.key)
          /\ curr_tags' = CurrentTags
          /\ bucket' = PutObjectTagging(bucket, s3_object.key,
                           set_av_tags(CurrentTags, scan_result, scan_signature,
                                       result_time))
          /\ Goto("TaggedAgain", <<"tags_write">>)
          /\ error' = error
       \/ /\ Raise("ClientError")
          /\ UNCHANGED <<effects, bucket, curr_tags>>
    /\ UNCHANGED <<delivery, trigger, cfg, bucketVersioning, s3_object, to_download, scan_result,
                   scan_signature, result_time, localFile, published>>

NextTags == SetAvTags \/ SetAvTagsAgain

SpecTags == InitTags /\ [][NextTags]_vars

---------------------------------------------------------------------------
(* The skip decision on its own: object_does_not_require_scan applied to    *)
(* every tag list of up to MaxTags tags, near misses of the provenance tag  *)
(* included                                                                 *)

SkipTagAlphabet ==
    {Tag(ProvenanceKey, "textract"),
     Tag(ProvenanceKey, "text"),
     Tag(ProvenanceKey, "textract-v2"),
     Tag(ProvenanceKey, "upload"),
     Tag("file-source", "textract"),
     Tag("owner", "ops"),
     Tag(AV_STATUS_METADATA, AV_STATUS_CLEAN)}

SkipTagLists == UNION {[1..n -> SkipTagAlphabet] : n \in 0..MaxTags}

\* an invocation that has found the object and is about to read its tags
InitSkip ==
    /\ trigger = NoTrigger
    /\ delivery = 1
    /\ cfg = DefaultConfig
    /\ bucketVersioning = "Enabled"
    /\ \E tagset \in SkipTagLists :
          bucket = <<ObjectVersion(KeyA, 1, tagset, InitialMeta)>>
    /\ pc = "Validated"
    /\ s3_object = [bucket_name |-> BucketName, key |-> KeyA]
    /\ to_download = 0
    /\ scan_result = None
    /\ scan_signature = None
    /\ result_time = 0
    /\ localFile = 0
    /\ curr_tags = <<>>
    /\ now = 2
    /\ effects = <<"exists_check">>
    /\ published = <<>>
    /\ error = "none"

NextSkip == SkipPolicy

SpecSkip == InitSkip /\ [][NextSkip]_vars

---------------------------------------------------------------------------
(* The decoding on its own: event_object applied to both envelopes of every *)
(* URL-escaped key of up to MaxKeyLen characters, and to malformed triggers *)

KeyAlphabet == {"a", "+", "%", "2", "0", "B"}

EscapedKeys == UNION {[1..n -> KeyAlphabet] : n \in 1..MaxKeyLen}

BucketNames == {BucketName, "archive"}

MalformedEvents == {NoRecordsEvent, EmptyRecordsEvent, OtherSourceEvent}

DecodeEvents ==
    {SnsEvent(b, k) : b \in BucketNames, k \in EscapedKeys}
        \cup {SqsEvent(b, k) : b \in BucketNames, k \in EscapedKeys}
        \cup MalformedEvents

\* a trigger about to be handed to lambda_handler
InitDecode ==
    /\ trigger \in DecodeEvents
    /\ delivery = 1
    /\ cfg = DefaultConfig
    /\ bucketVersioning = "Enabled"
    /\ bucket = <<ObjectVersion(KeyA, 1, <<>>, InitialMeta)>>
    /\ pc = "Received"
    /\ s3_object = NoObject
    /\ to_download = 0
    /\ scan_result = None
    /\ scan_signature = None
    /\ result_time = 0
    /\ localFile = 0
    /\ curr_tags = <<>>
    /\ now = 1
    /\ effects = <<>>
    /\ published = <<>>
    /\ error = "none"

NextDecode == DecodeEvent

SpecDecode == InitDecode /\ [][NextDecode]_vars

---------------------------------------------------------------------------
(* Redelivery: the platform hands the same trigger to lambda_handler once   *)
(* more after an invocation that failed with side effects committed         *)

\* the feature flags in every combination, the topics all set or all unset
RetryConfigs ==
    {[DefaultConfig EXCEPT !.AV_PROCESS_ORIGINAL_VERSION_ONLY = orig,
                           !.AV_DELETE_INFECTED_FILES = del,
                           !.AV_UPDATE_METADATA = meta,
                           !.AV_DELETE_SNS_ARN = IF topics THEN "arn:delete" ELSE None,
                           !.AV_SCAN_START_SNS_ARN = IF topics THEN "arn:start" ELSE None,
                           !.AV_STATUS_SNS_ARN = IF topics THEN "arn:status" ELSE None] :
        orig \in FlagValues, del \in FlagValues, meta \in BOOLEAN, topics \in BOOLEAN}

InitRetry ==
    /\ trigger = SnsEvent(BucketName, KeyA)
    /\ delivery = 1
    /\ cfg \in RetryConfigs
    /\ bucketVersioning \in {"Enabled", "Suspended"}
    /\ bucket \in InitialBuckets
    /\ pc = "Received"
    /\ s3_object = NoObject
    /\ to_download = 0
    /\ scan_result = None
    /\ scan_signature = None
    /\ result_time = 0
    /\ localFile = 0
    /\ curr_tags = <<>>
    /\ now = 1
    /\ effects = <<>>
    /\ published = <<>>
    /\ error = "none"

\* the failed invocation had published or downloaded something
SideEffectsCommitted == effects # <<>> /\ (published # <<>> \/ localFile # 0)

\* a fresh invocation for the same trigger: the handler's locals start anew,
\* the bucket, the topics' messages and the file left at file_path remain
Redeliver ==
    /\ pc = "Failed"
    /\ delivery = 1
    /\ SideEffectsCommitted
    /\ delivery' = 2
    /\ trigger' = SnsEvent(s3_object.bucket_name, s3_object.key)
    /\ pc' = "Received"
    /\ s3_object' = NoObject
    /\ to_download' = 0
    /\ scan_result' = None
    /\ scan_signature' = None
    /\ result_time' = 0
    /\ curr_tags' = <<>>
    /\ effects' = <<>>
    /\ error' = "none"
    /\ UNCHANGED <<cfg, bucketVersioning, bucket, localFile, now, published>>

NextRetry == Next \/ Redeliver

SpecRetry == InitRetry /\ [][NextRetry]_vars

---------------------------------------------------------------------------
(* Another writer: with process-original-only enabled, an upload of a new   *)
(* version of the referenced key arrives while the invocation is between    *)
(* the guard and the tag write                                              *)

ConcConfigs ==
    {[DefaultConfig EXCEPT !.AV_PROCESS_ORIGINAL_VERSION_ONLY = "True",
                           !.AV_DELETE_INFECTED_FILES = del,
                           !.AV_UPDATE_METADATA = meta] :
        del \in FlagValues, meta \in BOOLEAN}

InitConc ==
    /\ trigger = SnsEvent(BucketName, KeyA)
    /\ delivery = 1
    /\ cfg \in ConcConfigs
    /\ bucketVersioning \in {"Enabled", "Suspended"}
    /\ bucket \in InitialBuckets
    /\ pc = "Received"
    /\ s3_object = NoObject
    /\ to_download = 0
    /\ scan_result = None
    /\ scan_signature = None
    /\ result_time = 0
    /\ localFile = 0
    /\ curr_tags = <<>>
    /\ now = 1
    /\ effects = <<>>
    /\ published = <<>>
    /\ error = "none"

\* the positions of lambda_handler after the guard and up to the tag write
GuardToTagWrite ==
    {"Validated", "Starting", "Downloading", "SyncingDefs", "DownloadingDefs",
     "Scanning", "Scanned", "WritingTags"}

\* the upload of the other writer; the bucket holds up to MaxVersions + 1 versions
OtherWriterPut ==
    /\ pc \in GuardToTagWrite
    /\ Len(bucket) <= MaxVersions
    /\ bucket' = PutObject(bucketVersioning, bucket, s3_object.key)
    /\ UNCHANGED <<trigger, delivery, cfg, bucketVersioning, pc, s3_object,
                   to_download, scan_result, scan_signature, result_time, localFile,
                   curr_tags, now, effects, published, error>>

NextConc == Next \/ OtherWriterPut

SpecConc == InitConc /\ [][NextConc]_vars

---------------------------------------------------------------------------
(* What the properties below speak of *)

Did(op) == \E i \in 1..Len(effects) : effects[i] = op

PublishedOf(kind) == {i \in 1..Len(published) : published[i].kind = kind}

\* the errors raised by a call to an external collaborator
ExternalErrors ==
    {"ClientError", "PublishError", "DefinitionSyncError", "ScanEngineError",
     "MetricsError", "DeleteError"}

\* the existence check found no object under the referenced key
MissingAtCheck ==
    /\ Did("exists_check")
    /\ ~Did("delete")
    /\ ~ObjectExists(bucket, s3_object.key)

\* the tags the referenced object carries under key k
TagsWithKey(k) ==
    {i \in 1..Len(CurrentTags) : CurrentTags[i].Key = k}

CarriesTag(k, v) ==
    /\ Cardinality(TagsWithKey(k)) = 1
    /\ \A i \in TagsWithKey(k) : CurrentTags[i].Value = v

NonScanTags(tagset) == SelectSeq(tagset, LAMBDA t : t.Key \notin ScanKeys)

\* the invocation deleted the object
Deleted == Did("delete") /\ ~ObjectExists(bucket, s3_object.key)

---------------------------------------------------------------------------
(* C1: when the existence check finds no object, the invocation logs a      *)
(* warning and ends in Done, not Failed, with no version check, download,   *)
(* scan, tag or metadata write, notification or deletion performed.         *)
C1_MissingObjectEndsDone ==
    MissingAtCheck =>
        /\ pc = "Done"
        /\ error = "none"
        /\ effects = <<"exists_check">>
        /\ published = <<>>
        /\ localFile = 0

(* C2: an invocation that downloaded the object has removed the local file  *)
(* when it terminates, in Done as well as in Failed.                        *)
C2_LocalFileRemovedAtEnd ==
    (Terminated /\ Did("download")) => localFile = 0

(* C3: with process-original-only enabled, the version guard rejects when   *)
(* versioning is not Enabled, rejects when 2 or more versions of the        *)
(* referenced key exist, and accepts when versioning is Enabled and exactly *)
(* 1 version of the referenced key exists, whatever else the bucket holds.  *)
C3_VersionGuardContract ==
    LET n == Len(VersionsOfKey(bucket, s3_object.key))
        rejected == error \in {"MisconfigurationError", "ConcurrentModificationError"}
    IN (Len(effects) = 2 /\ effects[2] = "version_check") =>
          /\ bucketVersioning # "Enabled" => rejected
          /\ n >= 2 => rejected
          /\ (bucketVersioning = "Enabled" /\ n = 1) => ~rejected

(* C4, as claimed: with INFECTED and delete-on-infection enabled the        *)
(* invocation ends in Done only if the object was deleted; and whatever the *)
(* delete flag, no terminated invocation leaves an infected object both     *)
(* undeleted and unreported (neither Failed nor covered by a notice).       *)
C4_InfectedNeverLeftSilently ==
    (Terminated /\ scan_result = AV_STATUS_INFECTED) =>
        /\ (str_to_bool(cfg.AV_DELETE_INFECTED_FILES) /\ pc = "Done") => Deleted
        /\ \/ Deleted
           \/ pc = "Failed"
           \/ PublishedOf("result_local") \cup PublishedOf("result_cross")
                \cup PublishedOf("delete") # {}

(* C4, as amended: with INFECTED and delete-on-infection enabled, the       *)
(* invocation ends in Done only if the object was deleted, a failed delete  *)
(* call ends it in Failed, and no terminated invocation leaves the object   *)
(* undeleted unless it ended in Failed. With the flag disabled the object   *)
(* is never deleted.                                                        *)
C4_DeleteFlagInfectedDeletedOrFailed ==
    (Terminated /\ scan_result = AV_STATUS_INFECTED) =>
        IF str_to_bool(cfg.AV_DELETE_INFECTED_FILES)
        THEN /\ pc = "Done" => Deleted
             /\ ~Deleted => pc = "Failed"
             /\ error = "DeleteError" => (pc = "Failed" /\ ~Deleted)
        ELSE ~Did("delete")

C4_Witness ==
    /\ pc = "Done"
    /\ scan_result = AV_STATUS_INFECTED
    /\ str_to_bool(cfg.AV_DELETE_INFECTED_FILES)
    /\ Deleted

(* C5: when the scan engine raises instead of returning a verdict, the      *)
(* invocation ends in Failed with no scan tag or metadata written and no    *)
(* scan-result notification published; scan tags, metadata and result       *)
(* notifications exist only after the engine returned CLEAN or INFECTED.    *)
C5_EngineErrorWritesNothing ==
    /\ error = "ScanEngineError" =>
          /\ pc = "Failed"
          /\ scan_result = None
    /\ (Did("tags_write") \/ Did("metadata_write")
            \/ PublishedOf("result_local") \cup PublishedOf("result_cross") # {}) =>
          /\ Did("scan")
          /\ error # "ScanEngineError"
          /\ scan_result \in {AV_STATUS_CLEAN, AV_STATUS_INFECTED}
    /\ Did("tags_write") => CarriesTag(AV_STATUS_METADATA, scan_result) \/ Did("delete")

C5_Witness ==
    /\ error = "ScanEngineError"
    /\ pc = "Failed"
    /\ Did("download")
    /\ ~Did("tags_write")

(* C6: the scan engine is invoked only after DefinitionSync returned its    *)
(* download set and every file of the set was downloaded; when the listing  *)
(* or a definition download fails, the invocation ends in Failed with the   *)
(* engine never invoked and no scan tags written.                           *)
C6_ScanOnlyWithRefreshedDefinitions ==
    /\ (pc = "Scanning" \/ Did("scan") \/ scan_result # None) =>
          /\ Did("defs_sync")
          /\ to_download = 0
    /\ error = "DefinitionSyncError" =>
          /\ pc = "Failed"
          /\ ~Did("scan")
          /\ scan_result = None
          /\ ~Did("tags_write")
          /\ ~Did("metadata_write")

C6_Witness ==
    /\ error = "DefinitionSyncError"
    /\ Did("defs_sync")
    /\ to_download > 0

(* C7: set_av_tags is idempotent: for every pre-existing tag list and every *)
(* ScanResult, applying the same ScanResult a second time leaves the tag    *)
(* list the first application left, which holds exactly one tag for each of *)
(* the three scan keys and every pre-existing non-scan tag, unchanged.      *)
C7_SetAvTagsIdempotent ==
    /\ pc \in {"Tagged", "TaggedAgain"} =>
          /\ CarriesTag(AV_SIGNATURE_METADATA, scan_signature)
          /\ CarriesTag(AV_STATUS_METADATA, scan_result)
          /\ CarriesTag(AV_TIMESTAMP_METADATA, result_time)
          /\ NonScanTags(CurrentTags) = NonScanTags(curr_tags)
          /\ Len(CurrentTags) = Len(NonScanTags(curr_tags)) + 3
    /\ pc = "TaggedAgain" => CurrentTags = curr_tags

C7_Witness ==
    /\ pc = "TaggedAgain"
    /\ Len(CurrentTags) = 5
    /\ \E i \in 1..Len(CurrentTags) : CurrentTags[i] = Tag("owner", "ops")
    /\ \E i \in 1..Len(CurrentTags) : CurrentTags[i] = Tag(ProvenanceKey, "upload")

\* the topic each kind of notification is meant for
TopicOf(kind) ==
    CASE kind = "skip" -> cfg.AV_STATUS_SNS_ARN
      [] kind = "start" -> cfg.AV_SCAN_START_SNS_ARN
      [] kind = "result_local" -> cfg.AV_STATUS_SNS_ARN
      [] kind = "result_cross" -> cfg.AV_STATUS_CLEAN_SNS_ARN
      [] kind = "delete" -> cfg.AV_DELETE_SNS_ARN

(* C8: every notification published (skip, scan-start, local scan-result,   *)
(* cross-account scan-result, deletion notice) went to the topic of its     *)
(* kind and that topic is configured (neither unset nor empty).             *)
C8_PublishedOnlyToConfiguredTopics ==
    \A i \in 1..Len(published) :
        /\ published[i].TargetArn = TopicOf(published[i].kind)
        /\ published[i].TargetArn # None
        /\ published[i].TargetArn # ""

C8_Witness ==
    /\ pc = "Done"
    /\ PublishedOf("start") # {}
    /\ PublishedOf("result_local") # {}
    /\ PublishedOf("result_cross") # {}
    /\ PublishedOf("delete") # {}

\* the handler is past both scan-result notifications
PastResultNotifications ==
    /\ scan_result # None
    /\ pc \in {"Notified", "CleaningUp", "DeletionNotice", "Deleting", "Done"}

(* C9: a CLEAN verdict produces no result notification, local or            *)
(* cross-account, when the clean-publish toggle is off, even with the       *)
(* topics configured; an INFECTED verdict produces exactly one result       *)
(* notification on each configured result topic when the infected-publish   *)
(* toggle is on, whatever the clean-publish toggle.                         *)
C9_ResultNotificationGating ==
    /\ (scan_result = AV_STATUS_CLEAN /\ ~str_to_bool(cfg.AV_STATUS_SNS_PUBLISH_CLEAN)) =>
          PublishedOf("result_local") \cup PublishedOf("result_cross") = {}
    /\ (/\ scan_result = AV_STATUS_INFECTED
        /\ str_to_bool(cfg.AV_STATUS_SNS_PUBLISH_INFECTED)
        /\ PastResultNotifications) =>
          /\ Cardinality(PublishedOf("result_local")) =
                (IF Configured(cfg.AV_STATUS_SNS_ARN) THEN 1 ELSE 0)
          /\ Cardinality(PublishedOf("result_cross")) =
                (IF Configured(cfg.AV_STATUS_CLEAN_SNS_ARN) THEN 1 ELSE 0)

C9_Witness ==
    /\ pc = "Done"
    /\ scan_result = AV_STATUS_INFECTED
    /\ ~str_to_bool(cfg.AV_STATUS_SNS_PUBLISH_CLEAN)
    /\ Cardinality(PublishedOf("result_local")) = 1
    /\ Cardinality(PublishedOf("result_cross")) = 1

(* C10: when the engine reports CLEAN and no external call fails, the       *)
(* invocation reaches Done with the object carrying the scan tags           *)
(* signature = empty, status = CLEAN, timestamp = the scan completion time; *)
(* the scan-start notification was sent iff its topic is configured, each   *)
(* result notification iff its topic is configured and the clean-publish    *)
(* toggle is on; the object is not deleted, whatever the delete flag.       *)
C10_CleanPathEndToEnd ==
    /\ scan_result = AV_STATUS_CLEAN =>
          /\ pc \notin {"DeletionNotice", "Deleting"}
          /\ ~Did("delete")
          /\ PublishedOf("delete") = {}
          /\ ObjectExists(bucket, s3_object.key)
          /\ error \in ExternalErrors \cup {"none"}
    /\ (scan_result = AV_STATUS_CLEAN /\ Terminated /\ error \notin ExternalErrors) =>
          /\ pc = "Done"
          /\ CarriesTag(AV_SIGNATURE_METADATA, "")
          /\ CarriesTag(AV_STATUS_METADATA, "CLEAN")
          /\ CarriesTag(AV_TIMESTAMP_METADATA, result_time)
          /\ result_time < now
          /\ Cardinality(PublishedOf("start")) =
                (IF Configured(cfg.AV_SCAN_START_SNS_ARN) THEN 1 ELSE 0)
          /\ Cardinality(PublishedOf("result_local")) =
                (IF /\ Configured(cfg.AV_STATUS_SNS_ARN)
                    /\ str_to_bool(cfg.AV_STATUS_SNS_PUBLISH_CLEAN) THEN 1 ELSE 0)
          /\ Cardinality(PublishedOf("result_cross")) =
                (IF /\ Configured(cfg.AV_STATUS_CLEAN_SNS_ARN)
                    /\ str_to_bool(cfg.AV_STATUS_SNS_PUBLISH_CLEAN) THEN 1 ELSE 0)
          /\ localFile = 0

C10_Witness ==
    /\ pc = "Done"
    /\ scan_result = AV_STATUS_CLEAN
    /\ str_to_bool(cfg.AV_DELETE_INFECTED_FILES)
    /\ PublishedOf("start") # {}
    /\ PublishedOf("result_local") # {}
    /\ PublishedOf("result_cross") # {}
    /\ CarriesTag(AV_STATUS_METADATA, "CLEAN")

\* operation a completed before operation b in this invocation
Before(a, b) ==
    \E i, j \in 1..Len(effects) : i < j /\ effects[i] = a /\ effects[j] = b

\* the engine reported INFECTED, the delete flag is on, no external call failed
InfectedDeleteRun ==
    /\ scan_result = AV_STATUS_INFECTED
    /\ str_to_bool(cfg.AV_DELETE_INFECTED_FILES)
    /\ error \notin ExternalErrors

(* C11: when the engine reports INFECTED with a signature, delete-on-       *)
(* infection is enabled and no external call fails, the object is tagged    *)
(* INFECTED with that signature before the deletion branch is entered, the  *)
(* deletion notice is published before the delete call exactly when the     *)
(* deletion topic is configured, the object is then deleted, the invocation *)
(* ends in Done, and the key no longer exists afterwards.                   *)
C11_InfectedDeleteEndToEnd ==
    InfectedDeleteRun =>
        /\ pc \in {"DeletionNotice", "Deleting"} =>
              /\ Did("tags_write")
              /\ CarriesTag(AV_STATUS_METADATA, AV_STATUS_INFECTED)
              /\ CarriesTag(AV_SIGNATURE_METADATA, scan_signature)
              /\ scan_signature # AV_SIGNATURE_OK
        /\ pc = "DeletionNotice" => PublishedOf("delete") = {}
        /\ pc = "Deleting" =>
              (PublishedOf("delete") # {}) = Configured(cfg.AV_DELETE_SNS_ARN)
        /\ Did("delete") =>
              /\ Before("tags_write", "delete")
              /\ Configured(cfg.AV_DELETE_SNS_ARN) =>
                    /\ Before("tags_write", "publish_delete")
                    /\ Before("publish_delete", "delete")
              /\ ~Configured(cfg.AV_DELETE_SNS_ARN) => ~Did("publish_delete")
        /\ Terminated =>
              /\ pc = "Done"
              /\ Did("delete")
              /\ ~ObjectExists(bucket, s3_object.key)

C11_Witness ==
    /\ pc = "Done"
    /\ InfectedDeleteRun
    /\ Before("publish_delete", "delete")
    /\ PublishedOf("delete") # {}
    /\ ~ObjectExists(bucket, s3_object.key)

\* SkipPolicy answered true for the referenced object in this invocation
SkipPolicyTrue ==
    /\ Did("tags_read")
    /\ ObjectExists(bucket, s3_object.key)
    /\ object_does_not_require_scan(CurrentTags)

(* C12: when SkipPolicy returns true, the invocation sends the skip         *)
(* notification (if the status topic is configured) and ends in Done; it    *)
(* does not download, sync definitions, scan, write tags or metadata,       *)
(* publish a start, result or deletion notification, or delete the object.  *)
C12_SkipPath ==
    SkipPolicyTrue =>
        /\ pc \in {"Skipped", "Done", "Failed"}
        /\ pc = "Failed" => error = "PublishError"
        /\ \A op \in {"download", "defs_sync", "scan", "metadata_write", "tags_write",
                      "publish_start", "publish_result_local", "publish_result_cross",
                      "publish_delete", "delete"} : ~Did(op)
        /\ \A i \in 1..Len(published) : published[i].kind = "skip"
        /\ localFile = 0
        /\ scan_result = None
        /\ pc = "Done" =>
              /\ Configured(cfg.AV_STATUS_SNS_ARN) =>
                    /\ Len(published) = 1
                    /\ published[1].TargetArn = cfg.AV_STATUS_SNS_ARN
              /\ ~Configured(cfg.AV_STATUS_SNS_ARN) => published = <<>>

C12_Witness ==
    /\ pc = "Done"
    /\ SkipPolicyTrue
    /\ Len(published) = 1
    /\ published[1].kind = "skip"


\* the tag set holds the provenance key with exactly the allow-listed value
TrustedProvenance(tagset) ==
    \E i \in 1..Len(tagset) : tagset[i] = Tag(ProvenanceKey, "textract")

(* C13: object_does_not_require_scan answers true exactly when the tag set  *)
(* holds a tag with the provenance key and the allow-listed value: false    *)
(* for no tags, for an absent provenance tag and for any other value, a     *)
(* prefix or an extension of the allow-listed one included; and the step    *)
(* leaves the bucket, its tags and the published notifications untouched.   *)
C13_SkipPolicyExactMatch ==
    /\ [](Did("tags_read") =>
             /\ pc \in {"Skipped", "Starting"}
             /\ (pc = "Skipped") = TrustedProvenance(CurrentTags)
             /\ CurrentTags = <<>> => pc = "Starting")
    /\ [][pc = "Validated" =>
             /\ bucket' = bucket
             /\ published' = published
             /\ localFile' = localFile]_vars

C13_Witness ==
    /\ pc = "Starting"
    /\ Did("tags_read")
    /\ \E i \in 1..Len(CurrentTags) : CurrentTags[i] = Tag(ProvenanceKey, "text")
    /\ \E i \in 1..Len(CurrentTags) : CurrentTags[i] = Tag("file-source", "textract")


\* the key has no character the URL escaping gives a meaning to
Unreserved(k) == \A i \in 1..Len(k) : k[i] \notin {"+", "%"}

(* C14: whenever lambda_handler decodes a trigger of envelope A or B that   *)
(* encodes bucket b and URL-escaped key k, the object reference it obtains  *)
(* is the one event_object gives for either envelope of b and k: bucket b   *)
(* and the same unescaped key (k itself when nothing in it is escaped, no   *)
(* plus sign left over); a trigger with no records or of neither envelope   *)
(* ends the invocation in Failed with no call to the object store and no    *)
(* notification.                                                            *)
C14_EnvelopesDecodeAlike ==
    [][pc = "Received" =>
          /\ \A b \in BucketNames, k \in EscapedKeys :
                trigger \in {SnsEvent(b, k), SqsEvent(b, k)} =>
                    /\ pc' = "Decoded"
                    /\ s3_object' = event_object(SnsEvent(b, k))
                    /\ s3_object' = event_object(SqsEvent(b, k))
                    /\ s3_object'.bucket_name = b
                    /\ Unreserved(k) => s3_object'.key = k
                    /\ \A i \in 1..Len(s3_object'.key) :
                          s3_object'.key[i] = "+" =>
                              \E j \in 1..Len(k) : k[j] = "%"
          /\ trigger \in MalformedEvents =>
                /\ pc' = "Failed"
                /\ error' = "FormatError"
                /\ s3_object' = NoObject
          /\ effects' = <<>>
          /\ published' = <<>>
          /\ bucket' = bucket
          /\ localFile' = localFile]_vars

C14_Witness ==
    /\ pc = "Decoded"
    /\ s3_object = [bucket_name |-> "archive", key |-> <<"+">>]


\* the object carries exactly one set of the three scan tags, those of the
\* verdict of this invocation
OneSetOfScanTags ==
    /\ ObjectExists(bucket, s3_object.key)
    /\ CarriesTag(AV_STATUS_METADATA, scan_result)
    /\ CarriesTag(AV_SIGNATURE_METADATA, scan_signature)
    /\ CarriesTag(AV_TIMESTAMP_METADATA, result_time)

(* C15: for every combination of the feature flags, the redelivery that     *)
(* follows an invocation failed with side effects committed, and that meets *)
(* no external failure, ends in Done with the object in a consistent end    *)
(* state: deleted when the verdict is INFECTED and delete-on-infection is   *)
(* enabled, carrying exactly one set of scan tags of the verdict otherwise. *)
C15_RetryConverges ==
    (delivery = 2 /\ Terminated /\ error \notin ExternalErrors) =>
        /\ pc = "Done"
        /\ IF deletes_infected(cfg, scan_result)
           THEN Did("delete") /\ ~ObjectExists(bucket, s3_object.key)
           ELSE ~Did("delete") /\ OneSetOfScanTags


\* the publisher's steps in the order the spec gives them
PublisherOrder ==
    <<"metadata_write", "tags_write", "publish_result_local", "publish_result_cross",
      "publish_delete", "delete">>

\* the publisher steps completed so far, in the order they completed
PublisherSteps ==
    SelectSeq(effects, LAMBDA op : \E r \in 1..Len(PublisherOrder) : PublisherOrder[r] = op)

RankOf(op) == CHOOSE r \in 1..Len(PublisherOrder) : PublisherOrder[r] = op

\* s is t extended at its end
Extends(s, t) == Len(t) <= Len(s) /\ SubSeq(s, 1, Len(t)) = t

(* C16: once a ScanResult exists the publisher steps complete in the order  *)
(* metadata write (when enabled), tag write, local result notification,     *)
(* cross-account result notification, deletion notice, delete call, each    *)
(* at most once and none before the mandatory ones ahead of it completed;   *)
(* a step that fails ends the invocation in Failed, after which nothing     *)
(* more happens, and what had completed stays: the completed calls and the  *)
(* published notifications only grow, and the tags written stay written.    *)
C16_PublisherOrder ==
    /\ [](LET steps == PublisherSteps
          IN /\ \A i \in 1..(Len(steps) - 1) :
                   RankOf(steps[i]) < RankOf(steps[i + 1])
             /\ steps # <<>> => Did("scan")
             /\ steps # <<>> =>
                   steps[1] = IF cfg.AV_UPDATE_METADATA THEN "metadata_write"
                                                        ELSE "tags_write"
             /\ Len(steps) >= 2 =>
                   \E i \in 1..2 : steps[i] = "tags_write"
             /\ pc \in {"Tagged", "NotifiedLocal", "Notified", "CleaningUp",
                        "DeletionNotice", "Deleting"} => Did("tags_write")
             /\ (Did("delete") /\ Configured(cfg.AV_DELETE_SNS_ARN))
                   => Did("publish_delete")
             /\ (Did("tags_write") /\ ~Did("delete")) =>
                   CarriesTag(AV_STATUS_METADATA, scan_result))
    /\ [][/\ pc # "Failed"
          /\ Extends(effects', effects)
          /\ Extends(published', published)
          /\ (error' # "none") =>
                /\ pc' = "Failed"
                /\ bucket' = bucket
                /\ published' = published
                /\ effects' \in {effects, Append(effects, "exists_check"),
                                 Append(effects, "version_check")}]_vars

C16_Witness ==
    /\ pc = "Failed"
    /\ error = "DeleteError"
    /\ PublisherSteps = <<"metadata_write", "tags_write", "publish_result_local",
                          "publish_result_cross", "publish_delete">>
    /\ CarriesTag(AV_STATUS_METADATA, AV_STATUS_INFECTED)


\* the versions of the referenced key that carry the scan tags this
\* invocation wrote
TaggedByThisInvocation ==
    {i \in 1..Len(bucket) :
        /\ bucket[i].Key = s3_object.key
        /\ \E t \in 1..Len(bucket[i].Tags) :
              bucket[i].Tags[t] = Tag(AV_TIMESTAMP_METADATA, result_time)}

(* C17: with process-original-only enabled, the scan tags the invocation    *)
(* has written are on a version holding the content it downloaded and       *)
(* scanned, whenever another writer adds a version of the key between the   *)
(* guard and the tag write: no version of other content carries them.       *)
C17_TagsLandOnScannedVersion ==
    (/\ str_to_bool(cfg.AV_PROCESS_ORIGINAL_VERSION_ONLY)
     /\ Did("tags_write")
     /\ localFile # 0) =>
        /\ TaggedByThisInvocation # {}
        /\ \A i \in TaggedByThisInvocation : bucket[i].Body = localFile


(* C18: in every state, the invocation has deleted the object only if the  *)
(* engine returned INFECTED in this invocation, delete-on-infection is      *)
(* enabled and the INFECTED tags had been written before the delete call;   *)
(* with a CLEAN verdict, on the skip path or with the flag disabled there   *)
(* is no delete call and an object found by the existence check is still    *)
(* there.                                                                   *)
C18_DeletedOnlyWhenInfectedAndFlagged ==
    /\ Did("delete") =>
          /\ scan_result = AV_STATUS_INFECTED
          /\ str_to_bool(cfg.AV_DELETE_INFECTED_FILES)
          /\ Before("scan", "tags_write")
          /\ Before("tags_write", "delete")
    /\ pc = "Deleting" =>
          /\ scan_result = AV_STATUS_INFECTED
          /\ str_to_bool(cfg.AV_DELETE_INFECTED_FILES)
          /\ CarriesTag(AV_STATUS_METADATA, AV_STATUS_INFECTED)
    /\ (\/ scan_result = AV_STATUS_CLEAN
        \/ SkipPolicyTrue
        \/ ~str_to_bool(cfg.AV_DELETE_INFECTED_FILES)) =>
          /\ ~Did("delete")
          /\ pc \notin {"DeletionNotice", "Deleting"}
          /\ (Did("exists_check") /\ error # "TypeError") =>
                ObjectExists(bucket, s3_object.key)

C18_Witness ==
    /\ Did("delete")
    /\ PublishedOf("delete") = {}
    /\ bucketVersioning = "Suspended"
    /\ bucket[LatestIdx(bucket, s3_object.key)].DeleteMarker

\* the object as the guard meets it would be rejected: versioning is not
\* enabled, or the referenced key has more than one version
GuardMustReject ==
    \/ bucketVersioning # "Enabled"
    \/ Len(VersionsOfKey(bucket, s3_object.key)) > 1

GuardErrors == {"MisconfigurationError", "ConcurrentModificationError"}

(* C19: the version guard runs right after the existence check and before   *)
(* the tags are read. With process-original-only enabled, an invocation     *)
(* whose object the guard must reject is Failed once past the guard, with   *)
(* no tag read, no notification and no download, whatever tags the object   *)
(* carries; with the flag disabled the versions are never queried and the   *)
(* invocation never fails with a guard error.                               *)
C19_GuardBeforeSkipPolicy ==
    /\ Did("version_check") =>
          /\ str_to_bool(cfg.AV_PROCESS_ORIGINAL_VERSION_ONLY)
          /\ Len(effects) >= 2
          /\ effects[1] = "exists_check"
          /\ effects[2] = "version_check"
    /\ (str_to_bool(cfg.AV_PROCESS_ORIGINAL_VERSION_ONLY) /\ Len(effects) >= 2) =>
          effects[2] = "version_check"
    /\ error \in GuardErrors =>
          /\ effects = <<"exists_check", "version_check">>
          /\ published = <<>>
          /\ localFile = 0
    /\ (/\ str_to_bool(cfg.AV_PROCESS_ORIGINAL_VERSION_ONLY)
        /\ Did("exists_check")
        /\ ObjectExists(bucket, s3_object.key)
        /\ pc # "Validating"
        /\ ~Did("metadata_write")
        /\ GuardMustReject) =>
          /\ pc = "Failed"
          /\ error \in GuardErrors \cup {"ClientError"}
          /\ \A op \in {"tags_read", "publish_skip", "publish_start", "download"} :
                ~Did(op)
          /\ published = <<>>
          /\ localFile = 0
    /\ ~str_to_bool(cfg.AV_PROCESS_ORIGINAL_VERSION_ONLY) =>
          /\ ~Did("version_check")
          /\ error \notin GuardErrors

C19_Witness ==
    /\ error = "ConcurrentModificationError"
    /\ effects = <<"exists_check", "version_check">>
    /\ object_does_not_require_scan(CurrentTags)


===========================================================================
